---- MODULE Spec2Model ----
(***************************************************************************)
(* ApolloPyClient (src/apollopyclient.py): a client of the Apollo          *)
(* configuration centre.  One object holds the configuration dict, the     *)
(* releaseKey, the notificationId and the running flag `sign`; connect()    *)
(* fetches once on the caller's thread, listen() starts two threads         *)
(* (schedule_update, perceptual_update) that both call update_config(),     *)
(* close() clears `sign`.  No lock is taken anywhere, so every statement    *)
(* that reads or writes a field of the object is a step of its own here.    *)
(***************************************************************************)
EXTENDS Integers, Sequences, FiniteSets, TLC

VARIABLES
    sign,            \* self.sign: the running flag
    releaseKey,      \* self.releaseKey
    notificationId,  \* self.notificationId
    configurations,  \* self.configurations: [type, items]
    filename,        \* self.filename (None: no persistence)
    file,            \* the text of the file at `filename`: [kind, items]
    pc,              \* where each thread stands
    url,             \* update_config's local `url`: the releaseKey it carries
    r,               \* update_config's local `r`, per thread
    rhs,             \* line 121: the value of self.releaseKey already loaded
    buf,             \* line 124: the text written to f, not yet flushed
    pr,              \* perceptual_update's local `r`
    iters,           \* iterations the two loops have begun, together
    lateApplies,     \* history: line-119 assignments of each loop since close()
    calls,           \* history: update_config calls by perceptual_update since
                     \* its last notification
    notified,        \* history: the notificationId of the notification
                     \* perceptual_update received in its current iteration
    server           \* the release the server holds now

vars == <<sign, releaseKey, notificationId, configurations, filename, file, pc,
          url, r, rhs, buf, pr, iters, lateApplies, calls, notified, server>>

----------------------------------------------------------------------------
(* Bounds of the model *)

\* iterations the two loops may begin, together
MaxIters == 2

----------------------------------------------------------------------------
(* Values *)

\* Python's None, also what dict.get returns for a missing key
None == "<None>"
\* get() on a configurations value that is no dict
AttributeError == "<AttributeError>"
\* a request without a releaseKey parameter
NoParam == "<no releaseKey parameter>"

Threads == {"main", "schedule", "perceptual"}
Loops == {"schedule", "perceptual"}

\* The key update_config stores the releaseKey under, inside the dict
ReservedKey == "releaseKey"
Keys == {"x", ReservedKey}

EmptyDict == [k \in {} |-> ""]

\* dict.get(key)
DictGet(d, k) == IF k \in DOMAIN d THEN d[k] ELSE None

\* d[k] = v
DictSet(d, k, v) == [x \in (DOMAIN d) \cup {k} |-> IF x = k THEN v ELSE d[x]]

\* A Python value held in self.configurations: a dict, or whatever else
\* json.loads made of the file
PyDict(d) == [type |-> "dict", items |-> d]
PyList == [type |-> "list", items |-> EmptyDict]

----------------------------------------------------------------------------
(* The server: releases of the namespace, and what it may answer *)

ServerReleases == {"r1", "r2"}

\* The configurations object of each release.  Release r2 has a property
\* named like the reserved key.
ConfigurationsOf(k) ==
    IF k = "r1" THEN ("x" :> "1")
    ELSE ("x" :> "2") @@ (ReservedKey :> "v")

Statuses == {200, 304, 404}

\* A response body: not JSON at all, or a JSON object with some of the two
\* fields update_config reads.
NotJson == [json |-> FALSE, fields |-> {}, configurations |-> EmptyDict,
            releaseKey |-> None]
Body(k, fs) == [json |-> TRUE, fields |-> fs,
                configurations |-> IF "configurations" \in fs
                                   THEN ConfigurationsOf(k) ELSE EmptyDict,
                releaseKey |-> IF "releaseKey" \in fs THEN k ELSE None]
Full(k) == Body(k, {"configurations", "releaseKey"})
Bodies == {NotJson, Full("r1"), Full("r2"),
           Body("r2", {"configurations"}), Body("r1", {"releaseKey"})}

\* What the server may answer a fetch: any body with 200, and with the other
\* statuses no JSON or a full body
Responses == [status : {200}, body : Bodies] \cup
             [status : Statuses \ {200}, body : {NotJson, Full("r2")}]
NoResponse == [status |-> 0, body |-> NotJson]

\* A notification response: a JSON array whose first element has a
\* notificationId, or a body r.json()[0]["notificationId"] fails on
NotificationIds == {3, 5}
Notification(s, ok, n) == [status |-> s, ok |-> ok, notificationId |-> n]
NoNotification == Notification(0, FALSE, 0)
Notifications == {Notification(200, TRUE, n) : n \in NotificationIds} \cup
                 {Notification(s, FALSE, 0) : s \in Statuses} \cup
                 {Notification(404, TRUE, 5)}

----------------------------------------------------------------------------
(* The persisted file and its codec *)

\* No file at the path
NoFile == [kind |-> "none", items |-> EmptyDict]
\* A file open(filename, "w") has just truncated
EmptyText == [kind |-> "empty", items |-> EmptyDict]
\* Text json.loads rejects
Garbage == [kind |-> "garbage", items |-> EmptyDict]
\* JSON text that is an array
ArrayText == [kind |-> "array", items |-> EmptyDict]
\* JSON text of an object
ObjectText(d) == [kind |-> "object", items |-> d]

\* json.dumps(value)
json_dumps(v) == IF v.type = "dict" THEN ObjectText(v.items) ELSE ArrayText

\* json.loads(text) raises on text that is no JSON
json_loads_raises(t) == t.kind \notin {"object", "array"}
json_loads(t) == IF t.kind = "object" THEN PyDict(t.items) ELSE PyList

\* Number of characters of the text json.dumps writes
RECURSIVE ItemsLen(_, _)
ItemsLen(d, ks) ==
    IF ks = {} THEN 0
    ELSE LET k == CHOOSE x \in ks : TRUE
         IN  Len(k) + Len(d[k]) + 6 + (IF ks = {k} THEN 0 ELSE 2)
             + ItemsLen(d, ks \ {k})
TextLen(t) ==
    CASE t.kind = "object" -> 2 + ItemsLen(t.items, DOMAIN t.items)
      [] t.kind = "array" -> 2
      [] t.kind = "garbage" -> 1
      [] OTHER -> 0

\* Closing f writes its buffer at offset 0 of the file as it then is: a longer
\* text another writer flushed since this writer's open keeps its tail.
Flush(old, new) == IF TextLen(old) <= TextLen(new) THEN new ELSE Garbage

\* The files a client may be constructed on
InitialFiles == {NoFile, Garbage, ArrayText,
                 ObjectText("x" :> "1"),
                 ObjectText(("x" :> "1") @@ (ReservedKey :> "r1"))}

----------------------------------------------------------------------------
(* Notation for the threads' positions.  A position is named after the     *)
(* source line the thread executes next.                                    *)

\* `notified` when no notification was received; <<n>> when one was
NoNotice == <<>>

\* The loops without their try/except: an exception ends the thread
Raised_unhandled(t) == IF t = "main" THEN "connected" ELSE "done"

\* Where a thread goes when update_config raises: the except clause of its
\* caller (connect line 106, schedule_update line 136, perceptual_update
\* line 152)
Raised(t) ==
    CASE t = "main" -> "connected"
      [] t = "schedule" -> "s_138"
      [] OTHER -> "p_154"

\* Where a thread goes when update_config returns
Returned(t) ==
    CASE t = "main" -> "connected"
      [] t = "schedule" -> "s_138"
      [] OTHER -> "p_144"

\* Leaving update_config: its locals are gone
Leave(t, to) ==
    /\ pc' = [pc EXCEPT ![t] = to]
    /\ url' = [url EXCEPT ![t] = NoParam]
    /\ r' = [r EXCEPT ![t] = NoResponse]
    /\ rhs' = [rhs EXCEPT ![t] = None]
    /\ buf' = [buf EXCEPT ![t] = EmptyText]

Goto(t, to) == pc' = [pc EXCEPT ![t] = to]

----------------------------------------------------------------------------
(* __init__, lines 54-75 *)

Init ==
    /\ sign = TRUE
    /\ releaseKey = None
    /\ notificationId = -1
    /\ configurations = PyDict(EmptyDict)
    /\ filename \in {None, "apollo.json"}
    /\ file \in (IF filename = None THEN {NoFile} ELSE InitialFiles)
    /\ pc = [t \in Threads |-> IF t = "main" THEN "init_67" ELSE "idle"]
    /\ url = [t \in Threads |-> NoParam]
    /\ r = [t \in Threads |-> NoResponse]
    /\ rhs = [t \in Threads |-> None]
    /\ buf = [t \in Threads |-> EmptyText]
    /\ pr = NoNotification
    /\ iters = 0
    /\ lateApplies = [t \in Loops |-> 0]
    /\ calls = 0
    /\ notified = NoNotice
    /\ server = "r1"

\* Line 72: self.configurations = json.loads(r), inside the try
init_configurations(fn, f) ==
    IF fn = None \/ f.kind = "none" \/ json_loads_raises(f)
    THEN PyDict(EmptyDict)
    ELSE json_loads(f)

\* Line 73: self.releaseKey = self.configurations["releaseKey"], inside the try
init_releaseKey(fn, f) ==
    IF fn = None \/ f.kind = "none" \/ json_loads_raises(f)
    THEN None
    ELSE LET v == json_loads(f)
         IN  IF v.type = "dict" /\ ReservedKey \in DOMAIN v.items
             THEN v.items[ReservedKey]
             ELSE None

init ==
    /\ pc["main"] = "init_67"
    /\ configurations' = init_configurations(filename, file)
    /\ releaseKey' = init_releaseKey(filename, file)
    /\ Goto("main", "constructed")
    /\ UNCHANGED server
    /\ UNCHANGED <<sign, notificationId, filename, file, url, r, rhs, buf, pr,
                   iters, lateApplies, calls, notified>>

\* get(key), line 81
get(key) ==
    IF configurations.type = "dict"
    THEN DictGet(configurations.items, key)
    ELSE AttributeError

----------------------------------------------------------------------------
(* connect, listen, close *)

\* Lines 92-105: the URLs are set and update_config is called
connect ==
    /\ pc["main"] = "constructed"
    /\ Goto("main", "uc_114")
    /\ UNCHANGED server
    /\ UNCHANGED <<sign, releaseKey, notificationId, configurations, filename,
                   file, url, r, rhs, buf, pr, iters, lateApplies, calls,
                   notified>>

\* Line 164: _start_new_thread(self.schedule_update, ...)
listen_164 ==
    /\ pc["main"] = "connected"
    /\ pc' = [pc EXCEPT !["main"] = "listen_165", !["schedule"] = "s_133"]
    /\ UNCHANGED server
    /\ UNCHANGED <<sign, releaseKey, notificationId, configurations, filename,
                   file, url, r, rhs, buf, pr, iters, lateApplies, calls,
                   notified>>

\* Line 165: _start_new_thread(self.perceptual_update, ...)
listen_165 ==
    /\ pc["main"] = "listen_165"
    /\ pc' = [pc EXCEPT !["main"] = "listening", !["perceptual"] = "p_144"]
    /\ UNCHANGED server
    /\ UNCHANGED <<sign, releaseKey, notificationId, configurations, filename,
                   file, url, r, rhs, buf, pr, iters, lateApplies, calls,
                   notified>>

\* Line 171
close ==
    /\ pc["main"] = "listening"
    /\ sign' = FALSE
    /\ Goto("main", "closed")
    /\ UNCHANGED server
    /\ UNCHANGED <<releaseKey, notificationId, configurations, filename, file,
                   url, r, rhs, buf, pr, iters, lateApplies, calls, notified>>

----------------------------------------------------------------------------
(* update_config, lines 109-125, run by thread t *)

\* `if self.releaseKey:`, line 115
Truthy(v) == v # None /\ v # ""

\* Lines 114-116: the releaseKey parameter of the URL
request_url(rk) == IF Truthy(rk) THEN rk ELSE NoParam

\* Lines 114-116: the URL, with the releaseKey the object holds now
update_config_114(t) ==
    /\ pc[t] = "uc_114"
    /\ url' = [url EXCEPT ![t] = request_url(releaseKey)]
    /\ Goto(t, "uc_117")
    /\ UNCHANGED server
    /\ UNCHANGED <<sign, releaseKey, notificationId, configurations, filename,
                   file, r, rhs, buf, pr, iters, lateApplies, calls, notified>>

\* Line 118 with the test gone: every response is applied
NotModified_never(resp) == FALSE

\* `r.status_code == 304`, line 118
NotModified(resp) == resp.status = 304

\* Line 117: requests.get(url) raises (no connection) ...
update_config_117_raises(t) ==
    /\ pc[t] = "uc_117"
    /\ Leave(t, Raised(t))
    /\ UNCHANGED server
    /\ UNCHANGED <<sign, releaseKey, notificationId, configurations, filename,
                   file, pr, iters, lateApplies, calls, notified>>

\* ... or returns a response; line 118 looks at its status.  `url` is not
\* read again.
update_config_117(t) ==
    /\ pc[t] = "uc_117"
    /\ \E resp \in Responses :
          /\ r' = [r EXCEPT ![t] = resp]
          /\ Goto(t, IF NotModified(resp) THEN "uc_125" ELSE "uc_119")
    /\ url' = [url EXCEPT ![t] = NoParam]
    /\ UNCHANGED server
    /\ UNCHANGED <<sign, releaseKey, notificationId, configurations, filename,
                   file, rhs, buf, pr, iters, lateApplies, calls, notified>>

\* r.json()['configurations'] raises: the body is no JSON or has no such field
json_configurations_raises(resp) ==
    ~resp.body.json \/ "configurations" \notin resp.body.fields

\* r.json()["releaseKey"] raises
json_releaseKey_raises(resp) ==
    ~resp.body.json \/ "releaseKey" \notin resp.body.fields

\* Line 119: self.configurations = r.json()['configurations']
update_config_119(t) ==
    /\ pc[t] = "uc_119"
    /\ IF json_configurations_raises(r[t])
       THEN /\ Leave(t, Raised(t))
            /\ UNCHANGED <<configurations, lateApplies>>
       ELSE /\ configurations' = PyDict(r[t].body.configurations)
            /\ lateApplies' = IF t \in Loops /\ ~sign
                              THEN [lateApplies EXCEPT ![t] = @ + 1]
                              ELSE lateApplies
            /\ Goto(t, "uc_120")
            /\ UNCHANGED <<url, r, rhs, buf>>
    /\ UNCHANGED server
    /\ UNCHANGED <<sign, releaseKey, notificationId, filename, file, pr, iters,
                   calls, notified>>

\* Line 120: self.releaseKey = r.json()["releaseKey"]
update_config_120(t) ==
    /\ pc[t] = "uc_120"
    /\ IF json_releaseKey_raises(r[t])
       THEN /\ Leave(t, Raised(t))
            /\ UNCHANGED releaseKey
       ELSE /\ releaseKey' = r[t].body.releaseKey
            /\ Goto(t, "uc_121")
            /\ UNCHANGED <<url, r, rhs, buf>>
    /\ UNCHANGED server
    /\ UNCHANGED <<sign, notificationId, configurations, filename, file, pr,
                   iters, lateApplies, calls, notified>>

\* Line 121, right-hand side: self.releaseKey is loaded
update_config_121(t) ==
    /\ pc[t] = "uc_121"
    /\ rhs' = [rhs EXCEPT ![t] = releaseKey]
    /\ Goto(t, "uc_121_store")
    /\ UNCHANGED server
    /\ UNCHANGED <<sign, releaseKey, notificationId, configurations, filename,
                   file, url, r, buf, pr, iters, lateApplies, calls, notified>>

\* Line 122: `if self.filename:`
Persisting(fn) == Truthy(fn)

\* Line 121, the store: self.configurations["releaseKey"] = <loaded value>,
\* into the dict the object holds now
update_config_121_store(t) ==
    /\ pc[t] = "uc_121_store"
    /\ IF configurations.type = "dict"
       THEN /\ configurations' =
                  PyDict(DictSet(configurations.items, ReservedKey, rhs[t]))
            /\ Goto(t, IF Persisting(filename) THEN "uc_123" ELSE "uc_125")
            /\ rhs' = [rhs EXCEPT ![t] = None]
            /\ UNCHANGED <<url, r, buf>>
       ELSE /\ Leave(t, Raised(t))
            /\ UNCHANGED configurations
    /\ UNCHANGED server
    /\ UNCHANGED <<sign, releaseKey, notificationId, filename, file, pr, iters,
                   lateApplies, calls, notified>>

\* Line 123: open(self.filename, "w") truncates the file ...
update_config_123(t) ==
    /\ pc[t] = "uc_123"
    /\ file' = EmptyText
    /\ Goto(t, "uc_124")
    /\ UNCHANGED server
    /\ UNCHANGED <<sign, releaseKey, notificationId, configurations, filename,
                   url, r, rhs, buf, pr, iters, lateApplies, calls, notified>>

\* Line 123 raising, in an update_config that undid lines 119-121 on the way
\* out
update_config_123_raises_rollback(t) ==
    /\ pc[t] = "uc_123"
    /\ configurations' = PyDict(EmptyDict)
    /\ releaseKey' = None
    /\ Leave(t, Raised(t))
    /\ UNCHANGED server
    /\ UNCHANGED <<sign, notificationId, filename, file, pr, iters, lateApplies,
                   calls, notified>>

\* ... or raises OSError (the path cannot be written)
update_config_123_raises(t) ==
    /\ pc[t] = "uc_123"
    /\ Leave(t, Raised(t))
    /\ UNCHANGED server
    /\ UNCHANGED <<sign, releaseKey, notificationId, configurations, filename,
                   file, pr, iters, lateApplies, calls, notified>>

\* Line 124: f.write(json.dumps(self.configurations)), into f's buffer
update_config_124(t) ==
    /\ pc[t] = "uc_124"
    /\ buf' = [buf EXCEPT ![t] = json_dumps(configurations)]
    /\ Goto(t, "uc_124_close")
    /\ UNCHANGED server
    /\ UNCHANGED <<sign, releaseKey, notificationId, configurations, filename,
                   file, url, r, rhs, pr, iters, lateApplies, calls, notified>>

\* Leaving the with block of line 123: f is closed, its buffer written
update_config_124_close(t) ==
    /\ pc[t] = "uc_124_close"
    /\ file' = Flush(file, buf[t])
    /\ buf' = [buf EXCEPT ![t] = EmptyText]
    /\ Goto(t, "uc_125")
    /\ UNCHANGED server
    /\ UNCHANGED <<sign, releaseKey, notificationId, configurations, filename,
                   url, r, rhs, pr, iters, lateApplies, calls, notified>>

\* Line 125: logging.info(... requests.status_code), an attribute of the
\* requests module and not of r.  The module is not part of this repository:
\* the line returns where the installed module has such an attribute ...
update_config_125(t) ==
    /\ pc[t] = "uc_125"
    /\ Leave(t, Returned(t))
    /\ UNCHANGED server
    /\ UNCHANGED <<sign, releaseKey, notificationId, configurations, filename,
                   file, pr, iters, lateApplies, calls, notified>>

\* ... and raises AttributeError where it has none
update_config_125_raises(t) ==
    /\ pc[t] = "uc_125"
    /\ Leave(t, Raised(t))
    /\ UNCHANGED server
    /\ UNCHANGED <<sign, releaseKey, notificationId, configurations, filename,
                   file, pr, iters, lateApplies, calls, notified>>

update_config(t) ==
    \/ update_config_114(t)
    \/ update_config_117(t)
    \/ update_config_117_raises(t)
    \/ update_config_119(t)
    \/ update_config_120(t)
    \/ update_config_121(t)
    \/ update_config_121_store(t)
    \/ update_config_123(t)
    \/ update_config_123_raises(t)
    \/ update_config_124(t)
    \/ update_config_124_close(t)
    \/ update_config_125(t)
    \/ update_config_125_raises(t)

----------------------------------------------------------------------------
(* schedule_update, lines 127-138 *)

\* Line 133 as `while True:`
schedule_running_forever(s) == TRUE

\* `while self.sign:`, line 133
schedule_running(s) == s

\* Line 133 finds the flag set: the body begins, line 135 calls update_config
schedule_update_133 ==
    /\ pc["schedule"] = "s_133"
    /\ schedule_running(sign)
    /\ iters < MaxIters
    /\ iters' = iters + 1
    /\ Goto("schedule", "uc_114")
    /\ UNCHANGED server
    /\ UNCHANGED <<sign, releaseKey, notificationId, configurations, filename,
                   file, url, r, rhs, buf, pr, lateApplies, calls, notified>>

\* Line 133 finds the flag cleared: the thread ends
schedule_update_exit ==
    /\ pc["schedule"] = "s_133"
    /\ ~schedule_running(sign)
    /\ Goto("schedule", "done")
    /\ UNCHANGED server
    /\ UNCHANGED <<sign, releaseKey, notificationId, configurations, filename,
                   file, url, r, rhs, buf, pr, iters, lateApplies, calls,
                   notified>>

\* Line 138: time.sleep(interval) is over
schedule_update_138 ==
    /\ pc["schedule"] = "s_138"
    /\ Goto("schedule", "s_133")
    /\ UNCHANGED server
    /\ UNCHANGED <<sign, releaseKey, notificationId, configurations, filename,
                   file, url, r, rhs, buf, pr, iters, lateApplies, calls,
                   notified>>

schedule_update ==
    \/ schedule_update_133
    \/ schedule_update_exit
    \/ schedule_update_138
    \/ update_config("schedule")

----------------------------------------------------------------------------
(* perceptual_update, lines 140-154 *)

\* Line 144 as `while True:`
perceptual_running_forever(s) == TRUE

\* `while self.sign:`, line 144
perceptual_running(s) == s

\* Line 148 with the test gone: every response is read as a notification
no_notification_never(n) == FALSE

\* `r.status_code == 304`, line 148
no_notification(n) == n.status = 304

\* Line 144 finds the flag set; line 146 builds the URL with the
\* notificationId and line 147 sends the long-poll
perceptual_update_144 ==
    /\ pc["perceptual"] = "p_144"
    /\ perceptual_running(sign)
    /\ iters < MaxIters
    /\ iters' = iters + 1
    /\ notified' = NoNotice
    /\ pr' = NoNotification
    /\ Goto("perceptual", "p_147")
    /\ UNCHANGED server
    /\ UNCHANGED <<sign, releaseKey, notificationId, configurations, filename,
                   file, url, r, rhs, buf, lateApplies, calls>>

\* Line 144 finds the flag cleared: the thread ends
perceptual_update_exit ==
    /\ pc["perceptual"] = "p_144"
    /\ ~perceptual_running(sign)
    /\ Goto("perceptual", "done")
    /\ UNCHANGED server
    /\ UNCHANGED <<sign, releaseKey, notificationId, configurations, filename,
                   file, url, r, rhs, buf, pr, iters, lateApplies, calls,
                   notified>>

\* Line 147: requests.get(url) raises ...
perceptual_update_147_raises ==
    /\ pc["perceptual"] = "p_147"
    /\ Goto("perceptual", "p_154")
    /\ UNCHANGED server
    /\ UNCHANGED <<sign, releaseKey, notificationId, configurations, filename,
                   file, url, r, rhs, buf, pr, iters, lateApplies, calls,
                   notified>>

\* ... or returns a response; line 148 looks at its status
perceptual_update_147 ==
    /\ pc["perceptual"] = "p_147"
    /\ \E n \in Notifications :
          /\ pr' = n
          /\ Goto("perceptual", IF no_notification(n) THEN "p_144" ELSE "p_149")
          /\ notified' = IF n.status # 304 /\ n.ok THEN <<n.notificationId>>
                         ELSE NoNotice
          /\ calls' = IF n.status # 304 /\ n.ok THEN 0 ELSE calls
    /\ UNCHANGED server
    /\ UNCHANGED <<sign, releaseKey, notificationId, configurations, filename,
                   file, url, r, rhs, buf, iters, lateApplies>>

\* Line 149 assigning nothing new
json_notificationId_stale(n) == notificationId

\* Line 149: the value of r.json()[0]["notificationId"]
json_notificationId(n) == n.notificationId

\* Line 149: self.notificationId = r.json()[0]["notificationId"]
perceptual_update_149 ==
    /\ pc["perceptual"] = "p_149"
    /\ IF pr.ok
       THEN /\ notificationId' = json_notificationId(pr)
            /\ Goto("perceptual", "p_150")
       ELSE /\ Goto("perceptual", "p_154")
            /\ UNCHANGED notificationId
    /\ UNCHANGED server
    /\ UNCHANGED <<sign, releaseKey, configurations, filename, file, url, r,
                   rhs, buf, pr, iters, lateApplies, calls, notified>>

\* Line 150: self.update_config()
perceptual_update_150 ==
    /\ pc["perceptual"] = "p_150"
    /\ calls' = calls + 1
    /\ pr' = NoNotification
    /\ Goto("perceptual", "uc_114")
    /\ UNCHANGED server
    /\ UNCHANGED <<sign, releaseKey, notificationId, configurations, filename,
                   file, url, r, rhs, buf, iters, lateApplies, notified>>

\* Line 154: time.sleep(60) is over
perceptual_update_154 ==
    /\ pc["perceptual"] = "p_154"
    /\ pr' = NoNotification
    /\ Goto("perceptual", "p_144")
    /\ UNCHANGED server
    /\ UNCHANGED <<sign, releaseKey, notificationId, configurations, filename,
                   file, url, r, rhs, buf, iters, lateApplies, calls, notified>>

perceptual_update ==
    \/ perceptual_update_144
    \/ perceptual_update_exit
    \/ perceptual_update_147
    \/ perceptual_update_147_raises
    \/ perceptual_update_149
    \/ perceptual_update_150
    \/ perceptual_update_154
    \/ update_config("perceptual")

----------------------------------------------------------------------------
(* The client *)

main ==
    \/ init
    \/ connect
    \/ update_config("main")
    \/ listen_164
    \/ listen_165
    \/ close

Next == main \/ schedule_update \/ perceptual_update

Spec == Init /\ [][Next]_vars

\* The interpreter runs every thread that can run; requests.get returns or
\* raises
FairSpec ==
    Spec /\ WF_vars(schedule_update) /\ WF_vars(perceptual_update)

----------------------------------------------------------------------------
(* Properties *)

UpdateConfigLines == {"uc_114", "uc_117", "uc_119", "uc_120", "uc_121",
                      "uc_121_store", "uc_123", "uc_124", "uc_124_close",
                      "uc_125"}

\* The cache: the dict, the releaseKey and the persisted file
CacheUnchanged == UNCHANGED <<configurations, releaseKey, file>>

\* Neither loop has been started: the caller's thread is alone
Alone == pc["schedule"] = "idle" /\ pc["perceptual"] = "idle"

\* The entries of a dict under the keys other than the reserved one
UserItems(d) == [k \in (DOMAIN d) \ {ReservedKey} |-> d[k]]

\* C1: no step of an update_config call that received 304 (receiving it, and
\* every step of the call after it) changes the dict, the releaseKey or the
\* file.
C1_NotModifiedLeavesCache ==
    [][\A t \in Threads :
          (/\ pc'[t] # pc[t]
           /\ \/ r[t].status = 304
              \/ pc[t] = "uc_117" /\ r'[t].status = 304)
          => CacheUnchanged]_vars

\* A call that received 304 while a releaseKey was held is about to return
C1_Witness ==
    /\ pc["schedule"] = "uc_125"
    /\ r["schedule"].status = 304
    /\ releaseKey \in ServerReleases

\* C2 as claimed: when connect's update_config has applied a 200 response
\* with map M and release key K, get(k) is M[k] for every key k of M and the
\* next request carries releaseKey=K; a request carries the parameter exactly
\* when a releaseKey is held.
C2_Claimed ==
    /\ (/\ Alone
        /\ pc["main"] = "uc_125"
        /\ r["main"].status = 200)
       => /\ \A k \in DOMAIN r["main"].body.configurations :
                get(k) = r["main"].body.configurations[k]
          /\ request_url(releaseKey) = r["main"].body.releaseKey
    /\ (Alone /\ pc["main"] = "uc_117")
       => /\ url["main"] = NoParam <=> releaseKey = None
          /\ url["main"] # NoParam => url["main"] = releaseKey

\* C3 as claimed: when connect's update_config has applied a response with
\* map M, get(k) is None for every key k that M does not have.
C3_Claimed ==
    (/\ Alone
     /\ pc["main"] = "uc_125"
     /\ r["main"].status # 304)
    => \A k \in Keys \ DOMAIN r["main"].body.configurations : get(k) = None

\* The dict and the releaseKey are those of one release (or no release is
\* held yet)
Coherent ==
    releaseKey \in ServerReleases
    => /\ configurations.type = "dict"
       /\ UserItems(configurations.items)
             = UserItems(ConfigurationsOf(releaseKey))

\* C4 as claimed: a loop applying a full response never shows the caller's
\* thread or the other loop a dict of one release with the releaseKey of
\* another: every step of its update_config call that starts with the dict
\* and the releaseKey of one release ends with those of one release.
C4_Claimed ==
    [][\A t \in Loops :
          (/\ pc[t] \in UpdateConfigLines
           /\ pc'[t] # pc[t]
           /\ r[t].body \in {Full(k) : k \in ServerReleases}
           /\ Coherent)
          => Coherent']_vars

\* C5 as claimed: once the flag is cleared, no step changes the dict, the
\* releaseKey or the file.
C5_Claimed == [][~sign => CacheUnchanged]_vars

\* C5 amended: after close() each loop assigns self.configurations at most
\* once more (the call of the iteration that was running), and a loop that has
\* ended holds no response and no unwritten text.
C5_AtMostOneLateApply ==
    \A t \in Loops :
       /\ lateApplies[t] <= 1
       /\ pc[t] = "done" => r[t] = NoResponse /\ buf[t] = EmptyText

\* A loop has applied a response after close()
C5_Witness == ~sign /\ lateApplies["schedule"] = 1 /\ pc["schedule"] = "done"

\* The first line of each loop
LoopHead(t) == IF t = "schedule" THEN "s_133" ELSE "p_144"

C7_Claimed ==
    [][(/\ pc["main"] \in {"uc_117", "uc_119", "uc_120"}
        /\ pc'["main"] = "connected")
       => /\ configurations' = init_configurations(filename, file)
          /\ releaseKey' = init_releaseKey(filename, file)]_vars

\* C8 as claimed: when connect's update_config has applied (M, K) and written
\* the file, a client constructed on that file holds a dict equal to M and the
\* releaseKey K.
C8_Claimed ==
    (/\ Alone
     /\ pc["main"] = "uc_125"
     /\ r["main"].status # 304
     /\ Persisting(filename))
    => /\ init_configurations(filename, file)
             = PyDict(r["main"].body.configurations)
       /\ init_releaseKey(filename, file) = r["main"].body.releaseKey

\* C9 as claimed: constructed on no file, on text that is no JSON, on JSON
\* that is no object or on an object without the reserved entry, the client
\* holds an empty dict and no releaseKey.
C9_Claimed ==
    (/\ pc["main"] = "constructed"
     /\ \/ file.kind \in {"none", "garbage", "array"}
        \/ file.kind = "object" /\ ReservedKey \notin DOMAIN file.items)
    => /\ configurations = PyDict(EmptyDict)
       /\ releaseKey = None

\* C10: from the notification on, until the next long-poll is sent,
\* notificationId is the notification's (once line 149 has run) and
\* update_config has been called by the loop exactly once (once line 150 has
\* run).
C10_NotificationFetchesOnce ==
    notified # NoNotice
    => /\ pc["perceptual"] # "p_149" => notificationId = notified[1]
       /\ calls = IF pc["perceptual"] \in {"p_149", "p_150"} THEN 0 ELSE 1

\* The loop is about to send its next long-poll after a notification
C10_Witness ==
    /\ notified = <<5>>
    /\ pc["perceptual"] = "p_144"
    /\ sign
    /\ iters < MaxIters

----------------------------------------------------------------------------
(* C11 *)

\* C11, as the specification states it: notificationId starts at -1, changes
\* only when the watcher's line 149 takes it from a notification response, and
\* never decreases.
C11_Claimed ==
    /\ notificationId = -1
    /\ [][/\ notificationId' >= notificationId
          /\ notificationId' # notificationId =>
                 /\ pc["perceptual"] = "p_149"
                 /\ pc'["perceptual"] = "p_150"]_vars

----------------------------------------------------------------------------
(* C12 *)

\* The steps of a loop's thread
LoopStep(t) == IF t = "schedule" THEN schedule_update ELSE perceptual_update

\* A loop's thread is where an exception raised inside its try block lands:
\* before the sleep that ends the iteration
Caught(t) == pc[t] = Raised(t)

\* C12: while the flag is set a started loop never ends and never hangs:
\* whatever the fetch or the long-poll did (an exception lands in the loop's
\* own except clause, before its sleep), the thread has a further step to take
\* until the flag is cleared, and no step of a loop moves the caller's thread.
C12_LoopsSwallowErrors ==
    /\ [](\A t \in Loops :
             /\ pc[t] = "done" => ~sign
             /\ (/\ sign
                 /\ pc[t] # "idle"
                 /\ ~(pc[t] = LoopHead(t) /\ iters >= MaxIters))
                => ENABLED LoopStep(t))
    /\ [][\A t \in Loops :
             (pc[t] # "idle" /\ pc'[t] # pc[t]) => pc'["main"] = pc["main"]]_vars

\* The watcher caught an exception (line 154 is reached in no other way) while
\* the flag is set, and the schedule loop caught or finished its call
C12_Witness ==
    /\ sign
    /\ Caught("perceptual")
    /\ Caught("schedule")

----------------------------------------------------------------------------
(* C13 *)

\* What lines 119-121 make of a response with both fields: its configurations
\* with its releaseKey under the reserved key
Applied(resp) ==
    PyDict(DictSet(resp.body.configurations, ReservedKey, resp.body.releaseKey))

\* C13: when open() of line 123 raises after lines 119-121 applied a response,
\* the step changes neither the dict nor the releaseKey (nor the file), the
\* thread goes on in its caller's except clause, and in connect (no other
\* thread running) the client then holds the dict and the releaseKey made of
\* that response.
C13_WriteFailureKeepsUpdate ==
    [][\A t \in Threads :
          (pc[t] = "uc_123" /\ pc'[t] = Raised(t))
          => /\ CacheUnchanged
             /\ pc'[t] # "done"
             /\ Alone => /\ configurations' = Applied(r[t])
                         /\ releaseKey' = r[t].body.releaseKey]_vars

\* connect applied release r1 and could not open the file: there is still no
\* file, and get serves the release
C13_Witness ==
    /\ Alone
    /\ pc["main"] = "connected"
    /\ Persisting(filename)
    /\ file = NoFile
    /\ releaseKey = "r1"
    /\ get("x") = "1"

----------------------------------------------------------------------------
(* C14 *)

\* A response the specification counts as a failed fetch: a status other than
\* 200 and 304, or a body without one of the two fields
FetchError(resp) ==
    /\ resp # NoResponse
    /\ \/ resp.status \notin {200, 304}
       \/ json_configurations_raises(resp)
       \/ json_releaseKey_raises(resp)

\* C14 as claimed: no step of an update_config call whose request raised, or
\* that holds a failed response, changes the dict, the releaseKey or the file.
C14_Claimed ==
    [][\A t \in Threads :
          (/\ pc'[t] # pc[t]
           /\ \/ pc[t] = "uc_117" /\ r'[t] = NoResponse
              \/ FetchError(r[t]))
          => CacheUnchanged]_vars

----------------------------------------------------------------------------
(* The client against a server that keeps the protocol of lines 114-118: a
   fetch carrying the releaseKey the server holds is answered 304, any other
   fetch 200 with the server's release.  The caller never calls close(), the
   loops run without end, and once connect() is over every request is answered
   and every file write succeeds. *)

\* The answer to a fetch carrying the releaseKey parameter p, from a server
\* that holds release k
ServerAnswer(k, p) ==
    IF p = k THEN [status |-> 304, body |-> NotJson]
    ELSE [status |-> 200, body |-> Full(k)]

\* A new release is published
publish ==
    /\ server = "r1"
    /\ server' = "r2"
    /\ UNCHANGED <<sign, releaseKey, notificationId, configurations, filename,
                   file, pc, url, r, rhs, buf, pr, iters, lateApplies, calls,
                   notified>>

\* Line 117, answered by that server
served_update_config_117(t) ==
    /\ update_config_117(t)
    /\ r'[t] = ServerAnswer(server, url[t])

served_update_config(t) ==
    \/ update_config_114(t)
    \/ served_update_config_117(t)
    \/ update_config_119(t)
    \/ update_config_120(t)
    \/ update_config_121(t)
    \/ update_config_121_store(t)
    \/ update_config_123(t)
    \/ update_config_124(t)
    \/ update_config_124_close(t)
    \/ update_config_125(t)
    \/ update_config_125_raises(t)

\* Line 133 in a loop that runs without end
steady_schedule_update_133 ==
    /\ pc["schedule"] = "s_133"
    /\ schedule_running(sign)
    /\ Goto("schedule", "uc_114")
    /\ UNCHANGED server
    /\ UNCHANGED <<sign, releaseKey, notificationId, configurations, filename,
                   file, url, r, rhs, buf, pr, iters, lateApplies, calls,
                   notified>>

\* Line 144 in a loop that runs without end
steady_perceptual_update_144 ==
    /\ pc["perceptual"] = "p_144"
    /\ perceptual_running(sign)
    /\ notified' = NoNotice
    /\ pr' = NoNotification
    /\ Goto("perceptual", "p_147")
    /\ UNCHANGED server
    /\ UNCHANGED <<sign, releaseKey, notificationId, configurations, filename,
                   file, url, r, rhs, buf, iters, lateApplies, calls>>

\* The caller's thread: connect() may still find the server unreachable
steady_main ==
    \/ init
    \/ connect
    \/ listen_164
    \/ listen_165
    \/ update_config_117_raises("main")
    \/ served_update_config("main")

steady_schedule_update ==
    \/ steady_schedule_update_133
    \/ schedule_update_138
    \/ served_update_config("schedule")

steady_perceptual_update ==
    \/ steady_perceptual_update_144
    \/ perceptual_update_147
    \/ perceptual_update_147_raises
    \/ perceptual_update_149
    \/ perceptual_update_150
    \/ perceptual_update_154
    \/ served_update_config("perceptual")

SteadyNext ==
    \/ publish
    \/ steady_main
    \/ steady_schedule_update
    \/ steady_perceptual_update

\* Every thread is scheduled again and again
SteadySpec ==
    /\ Init
    /\ [][SteadyNext]_vars
    /\ WF_vars(steady_main)
    /\ WF_vars(steady_schedule_update)
    /\ WF_vars(steady_perceptual_update)

----------------------------------------------------------------------------
(* C15 *)

\* The dict serves the properties of the release the server holds
ServesServer ==
    /\ configurations.type = "dict"
    /\ UserItems(configurations.items) = UserItems(ConfigurationsOf(server))

\* C15 as claimed: once the server has published its last release and both
\* loops run, the dict comes to serve that release, however the threads
\* interleave.
C15_Claimed ==
    (server = "r2" /\ pc["main"] = "listening") ~> ServesServer

----------------------------------------------------------------------------
(* C16 *)

\* C16 as claimed: when the long-poll raises, or its response has a status
\* other than 200 and 304, the watcher's next step leads to the sleep of line
\* 154 and changes neither notificationId nor the dict, the releaseKey or the
\* file.
C16_Claimed ==
    [][(/\ pc'["perceptual"] # pc["perceptual"]
        /\ \/ pc["perceptual"] = "p_147" /\ pr' = NoNotification
           \/ pc["perceptual"] = "p_149" /\ pr.status \notin {200, 304})
       => /\ pc'["perceptual"] = "p_154"
          /\ notificationId' = notificationId
          /\ CacheUnchanged]_vars

----------------------------------------------------------------------------
(* C17 *)

\* C17: when the long-poll is answered 304, that step takes the watcher back
\* to the while test of line 144: not to the sleep of line 154, not into
\* update_config, and with notificationId, the dict, the releaseKey and the
\* file as they were.
C17_NotModifiedPollsAgain ==
    [][(pc["perceptual"] = "p_147" /\ pr'.status = 304)
       => /\ pc'["perceptual"] = "p_144"
          /\ notificationId' = notificationId
          /\ calls' = calls
          /\ CacheUnchanged]_vars

\* The watcher is back at line 144 from a 304, still holding the
\* notificationId of an earlier notification
C17_Witness ==
    /\ sign
    /\ pc["perceptual"] = "p_144"
    /\ pr.status = 304
    /\ notificationId = 5

----------------------------------------------------------------------------
(* C18 *)

\* C18 as claimed: the file changes only in steps of a thread that holds a 200
\* response with both fields, with a filename configured: when line 123 opens
\* it and when the with block closes it, and the text it has after the close is
\* the dump of what lines 119-121 made of that response.
C18_Claimed ==
    [][file' # file
       => \E t \in Threads :
             /\ pc'[t] # pc[t]
             /\ pc[t] \in {"uc_123", "uc_124_close"}
             /\ Persisting(filename)
             /\ r[t].status = 200
             /\ ~json_configurations_raises(r[t])
             /\ ~json_releaseKey_raises(r[t])
             /\ pc[t] = "uc_124_close" => file' = json_dumps(Applied(r[t]))]_vars

----------------------------------------------------------------------------
(* C19 *)

\* No thread is inside update_config
Quiescent == \A t \in Threads : pc[t] \notin UpdateConfigLines

\* C19 as claimed: whenever no update_config call is in progress, the dict
\* holds the properties of the release whose releaseKey the client holds.
C19_Claimed == Quiescent => Coherent

----------------------------------------------------------------------------
(* C20 *)

\* C20 as claimed: with a filename configured and every file write
\* succeeding, whenever no update_config call is in progress and the client
\* holds a releaseKey, the file is the dump of the dict the client holds, and
\* the releaseKey in it is the one the client holds.
C20_Claimed ==
    (/\ Persisting(filename)
     /\ Quiescent
     /\ releaseKey # None)
    => /\ file = json_dumps(configurations)
       /\ DictGet(configurations.items, ReservedKey) = releaseKey

====
